---- MODULE Spec2Model ----
(***************************************************************************)
(* Model of backend/main.py of quick-mcp-client: the MCP server wrapper    *)
(* (MCPServer), the registry of servers (ServerManager) and the chat       *)
(* orchestration loop (ChatManager).                                       *)
(*                                                                         *)
(* The program runs on one asyncio event loop.  A coroutine runs without   *)
(* interruption from one `await` that suspends to the next one, so every   *)
(* action below is one such stretch of one task: it starts where a task    *)
(* is called or resumed and ends where it suspends or returns.             *)
(***************************************************************************)
EXTENDS Integers, Sequences, FiniteSets, TLC

\* ------------------------------------------------------------------ bounds
MaxServers == 2        \* MCPServer objects ever constructed
MaxTurns == 2          \* chat calls ever made

Tasks == {1, 2}        \* request handlers that run concurrently
Sids == 1..MaxServers
Names == {"a", "b"}    \* provider names a caller may use

VARIABLES
    servers,    \* ServerManager.servers: the dict's entry array, in insertion order
    lock,       \* ServerManager._lock: the task holding it, 0 when free
    waiters,    \* ServerManager._lock: FIFO queue of the tasks waiting for it
    srv,        \* the MCPServer objects constructed so far, by identity
    nextSid,    \* identity of the next MCPServer object
    task,       \* the local state of every request handler
    sessions,   \* ChatManager.sessions: session id -> messages
    turns       \* chat calls made so far

vars == <<servers, lock, waiters, srv, nextSid, task, sessions, turns>>

\* ------------------------------------------------------------- tool data
None == "None"                         \* Python's None, where a string is expected
NoneDict == {<<"None", "None">>}        \* Python's None, where a dict is expected
EmptyDict == {}                        \* a dict is the set of its (key, value) pairs

ObjectSchema == {<<"type", "object">>, <<"properties", "ab">>}
NoPropsSchema == {<<"type", "object">>}
WrongTypeSchema == {<<"type", "string">>, <<"properties", "ab">>}

\* What each provider process answers to the protocol's list_tools request.
RawTools(name) ==
    IF name = "a"
    THEN << [name |-> "add", description |-> "sum", inputSchema |-> ObjectSchema] >>
    ELSE << [name |-> "add", description |-> None, inputSchema |-> NoneDict],
            [name |-> "mul", description |-> "product", inputSchema |-> NoPropsSchema],
            [name |-> "div", description |-> "quotient", inputSchema |-> WrongTypeSchema] >>

\* ToolInfo built by MCPServer.list_tools: None description and schema coerced.
ToolInfo(tool) ==
    [name |-> tool.name,
     description |-> IF tool.description = None THEN "" ELSE tool.description,
     input_schema |-> IF tool.inputSchema = NoneDict THEN EmptyDict ELSE tool.inputSchema]

ToolInfos(name) == [i \in DOMAIN RawTools(name) |-> ToolInfo(RawTools(name)[i])]

ToolNames == {"add", "mul", "nop"}     \* "nop" is offered by no provider

\* The result a provider returns for a call of tool.
ToolResult(tool) == [content |-> tool, isError |-> FALSE]

\* --------------------------------------------------- the dict of servers
Hole == [name |-> "", sid |-> 0]       \* a deleted entry of the dict's entry array

Live(d) == {i \in DOMAIN d : d[i] # Hole}
DictLen(d) == Cardinality(Live(d))
DictKeys(d) == {d[i].name : i \in Live(d)}
DictHas(d, name) == name \in DictKeys(d)
DictGet(d, name) ==
    IF DictHas(d, name) THEN (CHOOSE i \in Live(d) : d[i].name = name) ELSE 0
DictSet(d, name, sid) ==
    IF DictHas(d, name)
    THEN [d EXCEPT ![DictGet(d, name)].sid = sid]
    ELSE Append(d, [name |-> name, sid |-> sid])
DictDel(d, name) == [i \in DOMAIN d |-> IF d[i].name = name THEN Hole ELSE d[i]]
DictValues(d) == {d[i].sid : i \in Live(d)}

\* iter(dict.values()): position in the entry array, items left, size at creation.
DictIter(d) == [pos |-> 1, len |-> DictLen(d), used |-> DictLen(d)]

\* next() on that iterator: an item, StopIteration, or RuntimeError when the
\* dict changed size or keys since the iterator was created.
DictNext(d, it) ==
    LET rest == {i \in Live(d) : i >= it.pos}
        i == CHOOSE j \in rest : \A k \in rest : j <= k
    IN  IF it.used # DictLen(d) THEN [kind |-> "error", sid |-> 0, it |-> it]
        ELSE IF rest = {} THEN [kind |-> "stop", sid |-> 0, it |-> it]
        ELSE IF it.len = 0 THEN [kind |-> "error", sid |-> 0, it |-> it]
        ELSE [kind |-> "item", sid |-> d[i].sid,
              it |-> [it EXCEPT !.pos = i + 1, !.len = it.len - 1]]

\* ------------------------------------------------------------- MCPServer
NoServer ==
    [name |-> "", npx |-> FALSE, proc |-> "none", session |-> FALSE, dir |-> "none"]

\* The launch command of each provider's ServerConfig: "a" is run by npx.
UsesNpx(name) == name = "a"

\* MCPServer.__init__, and line 62 of start()
NewServer(name) == [NoServer EXCEPT !.name = name, !.npx = UsesNpx(name)]

\* MCPServer.start up to the first await: the npx cache directory.
StartPrepare(s) == [s EXCEPT !.dir = IF s.npx THEN "exists" ELSE s.dir]

\* stdio_client entered: the child process runs, its context is on the exit stack.
StartSpawned(s) == [s EXCEPT !.proc = "running"]

\* A start that returns without the handshake.
HandshakeSkipped(s) == s

\* initialize() acknowledged: self.session is set (line 79).
StartInitialized(s) == [s EXCEPT !.session = TRUE]

\* AsyncExitStack.aclose(): every context entered is exited, the exception of an
\* exit callback is re-raised only after all of them ran.
Aclose(s) == [s EXCEPT !.proc = IF s.proc = "running" THEN "exited" ELSE s.proc]

\* shutil.rmtree(self._npm_cache_dir, ignore_errors=True) under its guard.
RemoveCacheDir(s) == [s EXCEPT !.dir = IF s.dir = "exists" THEN "deleted" ELSE s.dir]

\* MCPServer.stop: the directory is removed only when aclose() returned.
StopServer(s, raised) == IF raised THEN Aclose(s) ELSE RemoveCacheDir(Aclose(s))

\* Whether the provider behind s answers a request at all.
Serving(s) == s.proc = "running" /\ s.session

\* MCPServer.list_tools: the outcome of the request, judged when it completes;
\* answered says whether the provider answered it with its tools or with an error.
ServerListTools(s, answered) ==
    IF Serving(s) /\ answered
    THEN [out |-> "ok", tools |-> ToolInfos(s.name)]
    ELSE [out |-> "ListError", tools |-> <<>>]

\* ----------------------------------------------------- request handlers
NoIter == [pos |-> 0, len |-> 0, used |-> 0]
NoResult == [content |-> "", isError |-> FALSE]

\* A handler that is not running.  pc is the await it is suspended at.
NoCall == [name |-> None, arguments |-> None]
NoMessage == [content |-> None, function_call |-> NoCall]

\* A handler that is not running.  pc is the await it is suspended at; name and
\* tool are the arguments of the registry's operations; cur, scan, it and acc are
\* the locals of their loops, skipped the servers whose list_tools raised in the
\* scan of call_tool; out, tools and res are what the handler returned
\* (tools, when list_tools raised, is what it had gathered by then).
\* The rest is chat's frame, and a record of what chat did: listed is the catalog
\* it read first, message and second are the LLM's replies it used, calls the LLM
\* calls it made, rejected the error that made it retry, llmError the error of an
\* LLM call that was not retried, invoked the outcome of ServerManager.call_tool,
\* before the transcript as chat found it, offered the catalog it read second and
\* functions the function definitions it sent with its first LLM call.
IdleTask ==
    [pc |-> "idle", op |-> "none", name |-> "", tool |-> "",
     cur |-> 0, scan |-> "none", it |-> NoIter, acc |-> <<>>,
     out |-> "none", tools |-> <<>>, res |-> NoResult,
     phase |-> 0, sid |-> "", msg |-> "", before |-> <<>>, listed |-> <<>>,
     fname |-> None, fargs |-> NoneDict, response |-> <<>>,
     message |-> NoMessage, second |-> NoMessage, calls |-> <<>>, rejected |-> "",
     llmError |-> "", invoked |-> "none", offered |-> <<>>, functions |-> <<>>,
     skipped |-> {}]

\* A handler that returned (out = "ok") or raised (out names the error).
Returned(tk, out, tools, res) ==
    [IdleTask EXCEPT !.pc = "done", !.op = tk.op, !.name = tk.name, !.tool = tk.tool,
                     !.out = out, !.tools = tools, !.res = res]

Callable(t) == task[t].pc \in {"idle", "done"}

Init ==
    /\ servers = <<>>
    /\ lock = 0
    /\ waiters = <<>>
    /\ srv = [i \in Sids |-> NoServer]
    /\ nextSid = 1
    /\ task = [t \in Tasks |-> IdleTask]
    /\ sessions = <<>>
    /\ turns = 0

\* ----------------------------------------------------------- asyncio.Lock
\* acquire() takes a free lock at once and otherwise queues the caller; release()
\* wakes the first waiter, and no later caller can overtake a waiter.
\* A lock that every caller finds free.
LockFreeAlways == TRUE

LockFree == lock = 0 /\ waiters = <<>>
LockKeep(t) == lock' = t /\ UNCHANGED waiters
LockRelease ==
    /\ lock' = IF waiters = <<>> THEN 0 ELSE Head(waiters)
    /\ waiters' = IF waiters = <<>> THEN <<>> ELSE Tail(waiters)
LockWait(t) == waiters' = Append(waiters, t) /\ UNCHANGED lock

\* ------------------------------------------------ ServerManager.add_server
\* A registry that lets every name in.
AlreadyExistsNever(name) == FALSE

\* The test of line 116.
AlreadyExists(name) == DictHas(servers, name)

\* add_server from the lock's acquisition to the await of server.start().
AddLocked(t, tk) ==
    IF AlreadyExists(tk.name)
    THEN /\ task' = [task EXCEPT ![t] = Returned(tk, "DuplicateName", <<>>, NoResult)]
         /\ LockRelease
         /\ UNCHANGED <<servers, srv, nextSid>>
    ELSE /\ srv' = [srv EXCEPT ![nextSid] = StartPrepare(NewServer(tk.name))]
         /\ nextSid' = nextSid + 1
         /\ task' = [task EXCEPT ![t] = [tk EXCEPT !.pc = "add_spawn", !.cur = nextSid]]
         /\ LockKeep(t)
         /\ UNCHANGED servers

PendingAdds == Cardinality({u \in Tasks : task[u].pc = "add_wait"})

AddServer(t, name) ==
    /\ Callable(t)
    /\ nextSid + PendingAdds <= MaxServers
    /\ LET tk == [IdleTask EXCEPT !.op = "add", !.name = name]
       IN  IF LockFree
           THEN AddLocked(t, tk)
           ELSE /\ task' = [task EXCEPT ![t] = [tk EXCEPT !.pc = "add_wait"]]
                /\ LockWait(t)
                /\ UNCHANGED <<servers, srv, nextSid>>
    /\ UNCHANGED <<sessions, turns>>

AddResume(t) ==
    /\ task[t].pc = "add_wait"
    /\ lock = t
    /\ AddLocked(t, task[t])
    /\ UNCHANGED <<sessions, turns>>

\* stdio_client(params) entered or failed (line 73).
AddSpawn(t) ==
    /\ task[t].pc = "add_spawn"
    /\ \E ok \in BOOLEAN :
         IF ok
         THEN /\ srv' = [srv EXCEPT ![task[t].cur] = StartSpawned(@)]
              /\ task' = [task EXCEPT ![t].pc = "add_init"]
         ELSE /\ task' = [task EXCEPT ![t].pc = "add_stop"]
              /\ UNCHANGED srv
    /\ UNCHANGED <<servers, lock, waiters, nextSid, sessions, turns>>

\* What add_server does with a server that started (line 128).
Register(d, name, sid) == DictSet(d, name, sid)

\* session.initialize() acknowledged or failed (lines 75-79, 128).
AddInit(t) ==
    /\ task[t].pc = "add_init"
    /\ \E ack \in BOOLEAN :
         /\ IF ack
            THEN /\ srv' = [srv EXCEPT ![task[t].cur] = StartInitialized(@)]
                 /\ servers' = Register(servers, task[t].name, task[t].cur)
                 /\ task' = [task EXCEPT ![t] = Returned(@, "ok", <<>>, NoResult)]
                 /\ LockRelease
            ELSE /\ task' = [task EXCEPT ![t].pc = "add_stop"]
                 /\ UNCHANGED <<servers, srv, lock, waiters>>
    /\ UNCHANGED <<nextSid, sessions, turns>>

\* A handler that surfaces the error without the cleanup.
CleanupSkipped(s, raised) == s

\* The cleanup of lines 121-127: server.stop() in a try whose except passes.
CleanupFailedStart(s, raised) == StopServer(s, raised)

\* aclose() can raise only what an exit callback raises: the exit stack is empty
\* when stdio_client was not entered.
AcloseOutcomes(s) == IF s.proc = "running" THEN BOOLEAN ELSE {FALSE}

AddStop(t) ==
    /\ task[t].pc = "add_stop"
    /\ \E raised \in AcloseOutcomes(srv[task[t].cur]) :
         srv' = [srv EXCEPT ![task[t].cur] = CleanupFailedStart(@, raised)]
    /\ task' = [task EXCEPT ![t] = Returned(@, "LaunchError", <<>>, NoResult)]
    /\ LockRelease
    /\ UNCHANGED <<servers, nextSid, sessions, turns>>

\* --------------------------------------------- ServerManager.remove_server
\* remove_server from the lock's acquisition to the await of server.stop().
RemoveLocked(t, tk) ==
    IF ~DictHas(servers, tk.name)
    THEN /\ task' = [task EXCEPT ![t] = Returned(tk, "NotFound", <<>>, NoResult)]
         /\ LockRelease
    ELSE /\ task' = [task EXCEPT ![t] =
                [tk EXCEPT !.pc = "rm_stop", !.cur = servers[DictGet(servers, tk.name)].sid]]
         /\ LockKeep(t)

RemoveServer(t, name) ==
    /\ Callable(t)
    /\ LET tk == [IdleTask EXCEPT !.op = "remove", !.name = name]
       IN  IF LockFree
           THEN RemoveLocked(t, tk)
           ELSE /\ task' = [task EXCEPT ![t] = [tk EXCEPT !.pc = "rm_wait"]]
                /\ LockWait(t)
    /\ UNCHANGED <<servers, srv, nextSid, sessions, turns>>

RemoveResume(t) ==
    /\ task[t].pc = "rm_wait"
    /\ lock = t
    /\ RemoveLocked(t, task[t])
    /\ UNCHANGED <<servers, srv, nextSid, sessions, turns>>

\* A remove_server that stops the server and keeps its name.
UnregisterNothing(d, name) == d

\* What remove_server does once server.stop() returned (line 136).
Unregister(d, name) == DictDel(d, name)

\* server.stop() returned or raised (lines 135-136).
RemoveStop(t) ==
    /\ task[t].pc = "rm_stop"
    /\ \E raised \in AcloseOutcomes(srv[task[t].cur]) :
         /\ srv' = [srv EXCEPT ![task[t].cur] = StopServer(@, raised)]
         /\ IF raised
            THEN /\ task' = [task EXCEPT ![t] = Returned(@, "StopError", <<>>, NoResult)]
                 /\ UNCHANGED servers
            ELSE /\ task' = [task EXCEPT ![t] = Returned(@, "ok", <<>>, NoResult)]
                 /\ servers' = Unregister(servers, task[t].name)
    /\ LockRelease
    /\ UNCHANGED <<nextSid, sessions, turns>>

\* ---------------------------------------------- ServerManager.list_servers
ListServers == DictKeys(servers)

\* ------------------------------------------------ ServerManager.list_tools
\* A call runs from one await to the next.  Each operator below gives what a stretch
\* of a call comes to: it stops at an await with the caller's frame tk saved
\* (Awaiting), or the call has returned (out = "ok") or raised (out names the error).
Awaiting(tk) ==
    [kind |-> "await", tk |-> tk, out |-> "", tools |-> <<>>, res |-> NoResult]

Finished(tk, out, tools, res) ==
    [kind |-> "done", tk |-> tk, out |-> out, tools |-> tools, res |-> res]

\* What list_tools does when a server's list_tools raised (line 150: nothing
\* catches it, the exception leaves the loop and list_tools).
ListAllOnError(tk) == Finished(tk, "ListError", tk.acc, NoResult)

\* `for server in self.servers.values()` of line 149, from next() to the await.
ListAllNext(tk, it) ==
    LET n == DictNext(servers, it)
    IN  CASE n.kind = "item" ->
               Awaiting([tk EXCEPT !.pc = "list_call", !.scan = "all", !.cur = n.sid,
                                   !.it = n.it])
          [] n.kind = "stop" -> Finished(tk, "ok", tk.acc, NoResult)
          [] n.kind = "error" -> Finished(tk, "IterError", tk.acc, NoResult)

\* list_tools() with no name, up to its first await (lines 148-150).
ListAllStart(tk) == ListAllNext([tk EXCEPT !.acc = <<>>], DictIter(servers))

\* server.list_tools() of line 150 completed.
ListAllResume(tk, answered) ==
    LET r == ServerListTools(srv[tk.cur], answered)
    IN  IF r.out = "ok"
        THEN ListAllNext([tk EXCEPT !.acc = tk.acc \o r.tools], tk.it)
        ELSE ListAllOnError(tk)

\* list_tools(name), up to its await (lines 142-146).
ListOneStart(tk) ==
    IF ~DictHas(servers, tk.name)
    THEN Finished(tk, "NotFound", <<>>, NoResult)
    ELSE Awaiting([tk EXCEPT !.pc = "list_call", !.scan = "one",
                             !.cur = servers[DictGet(servers, tk.name)].sid])

\* server.list_tools() of line 146 completed.
ListOneResume(tk, answered) ==
    LET r == ServerListTools(srv[tk.cur], answered)
    IN  Finished(tk, r.out, r.tools, NoResult)

\* ------------------------------------------------ ServerManager.call_tool
\* A scan that takes every provider that answers for one that has the tool.
HasToolAny(tools, name) == TRUE

\* any(t.name == tool_name for t in tools) of line 161.
HasTool(tools, name) == \E i \in DOMAIN tools : tools[i].name = name

\* The raise of line 164.
NoServerHasTool(tk) == Finished(tk, "ToolNotFound", <<>>, NoResult)

\* `for server in self.servers.values()` of line 155, from next() to the await.
FindNext(tk, it) ==
    LET n == DictNext(servers, it)
    IN  CASE n.kind = "item" ->
               Awaiting([tk EXCEPT !.pc = "list_call", !.scan = "find", !.cur = n.sid,
                                   !.it = n.it])
          [] n.kind = "stop" -> NoServerHasTool(tk)
          [] n.kind = "error" -> Finished(tk, "IterError", <<>>, NoResult)

\* call_tool(tool, args), up to its first await (lines 155-157).
FindStart(tk) == FindNext(tk, DictIter(servers))

\* server.list_tools() of line 157 completed: lines 158-162.
FindResume(tk, answered) ==
    LET r == ServerListTools(srv[tk.cur], answered)
    IN  IF r.out # "ok"
        THEN FindNext([tk EXCEPT !.skipped = tk.skipped \cup {tk.cur}], tk.it)
        ELSE IF HasTool(r.tools, tk.tool)
        THEN Awaiting([tk EXCEPT !.pc = "tool_call"])
        ELSE FindNext(tk, tk.it)

\* server.call_tool() of line 162 completed.
InvokeResume(tk, ok) ==
    IF ok /\ Serving(srv[tk.cur])
    THEN Finished(tk, "ok", <<>>, ToolResult(tk.tool))
    ELSE Finished(tk, "InvocationError", <<>>, NoResult)

\* ------------------------------------- the registry's request handlers
Registry == <<servers, lock, waiters, srv, nextSid>>

\* The task stops at an await: its frame and the chat sessions are what it leaves.
Suspend(t, tk, ss) ==
    /\ task' = [task EXCEPT ![t] = tk]
    /\ sessions' = ss

\* The caller is a request handler itself: the call's outcome is the handler's.
Return(t, tk, ss, out, tools, res) == Suspend(t, Returned(tk, out, tools, res), ss)

\* A stretch r of a ServerManager call whose caller is the request itself (as
\* api_list_tools, lines 296-298): the outcome of the call is the request's.
Handler(t, r) ==
    IF r.kind = "await"
    THEN Suspend(t, r.tk, sessions)
    ELSE Return(t, r.tk, sessions, r.out, r.tools, r.res)

ListTools(t) ==
    /\ Callable(t)
    /\ \/ Handler(t, ListAllStart([IdleTask EXCEPT !.op = "list_tools"]))
       \/ \E name \in Names :
            Handler(t, ListOneStart([IdleTask EXCEPT !.op = "list_tools",
                                                     !.name = name]))
    /\ UNCHANGED <<Registry, turns>>

ListToolsResume(t) ==
    /\ task[t].pc = "list_call"
    /\ task[t].op = "list_tools"
    /\ \E answered \in BOOLEAN :
         IF task[t].scan = "all"
         THEN Handler(t, ListAllResume(task[t], answered))
         ELSE Handler(t, ListOneResume(task[t], answered))
    /\ UNCHANGED <<Registry, turns>>

CallTool(t, tool) ==
    /\ Callable(t)
    /\ Handler(t, FindStart([IdleTask EXCEPT !.op = "call_tool", !.tool = tool]))
    /\ UNCHANGED <<Registry, turns>>

CallToolListed(t) ==
    /\ task[t].pc = "list_call"
    /\ task[t].op = "call_tool"
    /\ \E answered \in BOOLEAN : Handler(t, FindResume(task[t], answered))
    /\ UNCHANGED <<Registry, turns>>

CallToolInvoked(t) ==
    /\ task[t].pc = "tool_call"
    /\ task[t].op = "call_tool"
    /\ \E ok \in BOOLEAN : Handler(t, InvokeResume(task[t], ok))
    /\ UNCHANGED <<Registry, turns>>

\* ------------------------------------------------------ the LLM backend
\* client.chat.completions.create: a reply, which is text or a function call, or
\* an exception: openai.BadRequestError for a function schema the API rejects or
\* for another fault of the request, or an error of another class.
GoodArguments == "{\"a\": 2, \"b\": 2}"
BadArguments == "{\"a\": 2,"

\* The function calls a reply may hold: of a tool some provider offers or of one
\* that none offers, with arguments that are JSON or are not.
FunctionCalls ==
    {[name |-> "add", arguments |-> GoodArguments],
     [name |-> "add", arguments |-> BadArguments],
     [name |-> "nop", arguments |-> GoodArguments]}

LLMReplies ==
    {[content |-> c, function_call |-> NoCall] : c \in {"4", None}}
    \cup {[content |-> None, function_call |-> fc] : fc \in FunctionCalls}

LLMErrors == {"BadRequestSchema", "BadRequestOther", "APIConnectionError"}

LLMOutcomes ==
    {[kind |-> "reply", msg |-> m] : m \in LLMReplies}
    \cup {[kind |-> e, msg |-> NoMessage] : e \in LLMErrors}

\* json.loads of the function call's arguments (line 232).
JsonLoads(text) ==
    IF text = GoodArguments
    THEN [ok |-> TRUE, value |-> {<<"a", "2">>, <<"b", "2">>}]
    ELSE [ok |-> FALSE, value |-> NoneDict]

\* json.dumps(jsonable_encoder(result)) of lines 239-241.
JsonDumps(result) ==
    <<"{\"content\":", result.content, "\"isError\":",
      IF result.isError THEN "true" ELSE "false", "}">>

\* ------------------------------------------------------------ ChatManager
\* A message's content is the sequence of the pieces its text is made of.
RECURSIVE ToolsDesc(_)
ToolsDesc(tools) ==
    IF tools = <<>> THEN <<>>
    ELSE <<Head(tools).name, ": ", Head(tools).description, "\n">> \o ToolsDesc(Tail(tools))

\* system_msg of lines 176-187.
SystemMsg(tools) ==
    <<"You are a helpful assistant with access to these tools:\n">>
    \o ToolsDesc(tools) \o <<"When you need to use a tool, ...">>

Message(role, name, content) == [role |-> role, name |-> name, content |-> content]

Transcript(ss, sid) == IF sid \in DOMAIN ss THEN ss[sid] ELSE <<>>

SetTranscript(ss, sid, messages) ==
    [x \in DOMAIN ss \cup {sid} |-> IF x = sid THEN messages ELSE ss[x]]

\* A chat that seeds the system message and never refreshes it.
WithSystemMsgSeeded(messages, content) ==
    IF messages = <<>> THEN << Message("system", "", content) >> ELSE messages

\* Lines 188-193: seed the system message, or overwrite the one at index 0.
WithSystemMsg(messages, content) ==
    IF messages = <<>>
    THEN << Message("system", "", content) >>
    ELSE [messages EXCEPT ![1].content = content]

AppendMessage(ss, sid, m) == SetTranscript(ss, sid, Append(Transcript(ss, sid), m))

\* str(uuid4()) of the n-th chat call.
Uuid(n) == <<"u1", "u2", "u3">>[n]

\* Lines 201-208: the function definition of each tool.
FallbackSchema == {<<"type", "object">>, <<"properties", "">>, <<"required", "">>}

\* A chat that sends every tool's schema as the provider gave it.
FunctionParametersAsIs(schema) == schema

FunctionParameters(schema) ==
    IF <<"type", "object">> \in schema /\ (\E kv \in schema : kv[1] = "properties")
    THEN schema
    ELSE FallbackSchema

FunctionsDefs(tools) ==
    [i \in DOMAIN tools |->
        [name |-> tools[i].name, description |-> tools[i].description,
         parameters |-> FunctionParameters(tools[i].input_schema)]]

\* What chat's handler holds when it ended: its frame, and how it ended.
ChatReturned(tk, out, response) ==
    [tk EXCEPT !.pc = "done", !.out = out, !.response = response, !.tool = "",
               !.cur = 0, !.scan = "none", !.it = NoIter, !.acc = <<>>, !.phase = 0,
               !.skipped = {}]

\* An exception leaves chat (and becomes the request's failure in api_chat).
ChatRaise(t, tk, ss, out) == Suspend(t, ChatReturned(tk, out, <<>>), ss)

\* Lines 254-261.
ChatRespond(t, tk, ss, content) ==
    Suspend(t, ChatReturned(tk, "ok", content),
            AppendMessage(ss, tk.sid, Message("assistant", "", content)))

\* message.content or "" (lines 248, 253).
ContentOf(message) == IF message.content = None THEN <<"">> ELSE <<message.content>>

\* f"Error calling tool {func_name}: {e}" (line 251).
ToolErrorText(func_name, e) == <<"Error calling tool ", func_name, ": ", e>>

\* A chat that answers with the tool's result and asks the LLM nothing more.
ChatToolSucceededNoFollowUp(t, tk, ss, res) ==
    ChatRespond(t, [tk EXCEPT !.invoked = "ok"],
                AppendMessage(ss, tk.sid, Message("function", tk.fname, JsonDumps(res))),
                JsonDumps(res))

\* Lines 238-248: the tool returned res; an error of the second LLM call is
\* caught by the except of line 249 like an error of the tool.
ChatToolSucceeded(t, tk, ss, res) ==
    LET ss2 == AppendMessage(ss, tk.sid, Message("function", tk.fname, JsonDumps(res)))
        tk2 == [tk EXCEPT !.invoked = "ok", !.calls = Append(tk.calls, "plain")]
    IN  \E r \in LLMOutcomes :
          IF r.kind = "reply"
          THEN ChatRespond(t, [tk2 EXCEPT !.second = r.msg], ss2, ContentOf(r.msg))
          ELSE ChatRespond(t, [tk2 EXCEPT !.llmError = r.kind], ss2,
                           ToolErrorText(tk.fname, r.kind))

\* A chat without the try of line 236: the tool's error is the request's.
ChatToolFailedRaises(t, tk, ss, e) == ChatRaise(t, [tk EXCEPT !.invoked = e], ss, e)

\* Lines 249-251: ServerManager.call_tool raised e.
ChatToolFailed(t, tk, ss, e) ==
    ChatRespond(t, [tk EXCEPT !.invoked = e], ss, ToolErrorText(tk.fname, e))

\* Lines 237-251, from the return of ServerManager.call_tool on.
ChatInvoked(t, tk, ss, out, tools, res) ==
    IF out = "ok" THEN ChatToolSucceeded(t, tk, ss, res) ELSE ChatToolFailed(t, tk, ss, out)

\* A stretch r of the call_tool of line 237.
ChatFinding(t, r, ss) ==
    IF r.kind = "await"
    THEN Suspend(t, r.tk, ss)
    ELSE ChatInvoked(t, r.tk, ss, r.out, r.tools, r.res)

\* A chat that handles a function call whether or not it offered functions.
SelectsToolAlways(use_functions, message) == message.function_call # NoCall

\* The test of line 230.
SelectsTool(use_functions, message) == use_functions /\ message.function_call # NoCall

\* Lines 226-253, up to the await of ServerManager.call_tool.
ChatHandle(t, tk, ss, message, use_functions) ==
    IF SelectsTool(use_functions, message)
    THEN LET args == JsonLoads(message.function_call.arguments)
             func_name == message.function_call.name
         IN  IF ~args.ok
             THEN ChatRaise(t, tk, ss, "JSONDecodeError")
             ELSE ChatFinding(t, FindStart([tk EXCEPT !.phase = 3, !.tool = func_name,
                                                      !.fname = func_name,
                                                      !.fargs = args.value]), ss)
    ELSE ChatRespond(t, tk, ss, ContentOf(message))

\* The except clause of line 218.
CaughtForRetry(kind) == kind \in {"BadRequestSchema", "BadRequestOther"}

\* Lines 198-225, from the return of the second list_tools on: the LLM calls.
ChatListed2(t, tk, ss, out, tools, res) ==
    IF out # "ok"
    THEN ChatRaise(t, tk, ss, out)
    ELSE \E r1 \in LLMOutcomes :
           LET tk1 == [tk EXCEPT !.calls = <<"functions">>, !.message = r1.msg,
                                 !.offered = tools, !.functions = FunctionsDefs(tools)]
           IN  IF r1.kind = "reply"
               THEN ChatHandle(t, tk1, ss, r1.msg, TRUE)
               ELSE IF CaughtForRetry(r1.kind)
               THEN \E r2 \in LLMOutcomes :
                      LET tk2 == [tk1 EXCEPT !.calls = <<"functions", "plain">>,
                                             !.rejected = r1.kind, !.message = r2.msg]
                      IN  IF r2.kind = "reply"
                          THEN ChatHandle(t, tk2, ss, r2.msg, FALSE)
                          ELSE ChatRaise(t, [tk2 EXCEPT !.llmError = r2.kind], ss, r2.kind)
               ELSE ChatRaise(t, [tk1 EXCEPT !.llmError = r1.kind], ss, r1.kind)

\* A stretch r of the list_tools of line 198.
ChatListing2(t, r, ss) ==
    IF r.kind = "await"
    THEN Suspend(t, r.tk, ss)
    ELSE ChatListed2(t, r.tk, ss, r.out, r.tools, r.res)

\* Lines 176-198, from the return of the first list_tools to the second one.
ChatListed1(t, tk, ss, out, tools, res) ==
    IF out # "ok"
    THEN ChatRaise(t, tk, ss, out)
    ELSE LET seeded == WithSystemMsg(Transcript(ss, tk.sid), SystemMsg(tools))
             ss1 == SetTranscript(ss, tk.sid, seeded)
             ss2 == AppendMessage(ss1, tk.sid, Message("user", "", <<tk.msg>>))
         IN  ChatListing2(t, ListAllStart([tk EXCEPT !.phase = 2, !.listed = tools]), ss2)

\* A stretch r of the list_tools of line 175.
ChatListing1(t, r, ss) ==
    IF r.kind = "await"
    THEN Suspend(t, r.tk, ss)
    ELSE ChatListed1(t, r.tk, ss, r.out, r.tools, r.res)

\* chat(req), up to the first await (lines 173-175).
Chat(t, session_id, message) ==
    /\ Callable(t)
    /\ turns < MaxTurns
    /\ turns' = turns + 1
    /\ LET sid == IF session_id = None THEN Uuid(turns + 1) ELSE session_id
       IN  ChatListing1(t, ListAllStart([IdleTask EXCEPT
                                           !.op = "chat", !.phase = 1, !.sid = sid,
                                           !.msg = message,
                                           !.before = Transcript(sessions, sid)]),
                        sessions)
    /\ UNCHANGED Registry

\* server.list_tools() completed in the list_tools of line 175.
ChatResume1(t) ==
    /\ task[t].pc = "list_call" /\ task[t].op = "chat" /\ task[t].phase = 1
    /\ \E answered \in BOOLEAN :
         ChatListing1(t, ListAllResume(task[t], answered), sessions)
    /\ UNCHANGED <<Registry, turns>>

\* server.list_tools() completed in the list_tools of line 198.
ChatResume2(t) ==
    /\ task[t].pc = "list_call" /\ task[t].op = "chat" /\ task[t].phase = 2
    /\ \E answered \in BOOLEAN :
         ChatListing2(t, ListAllResume(task[t], answered), sessions)
    /\ UNCHANGED <<Registry, turns>>

\* server.list_tools() completed in the call_tool of line 237.
ChatResume3(t) ==
    /\ task[t].pc = "list_call" /\ task[t].op = "chat" /\ task[t].phase = 3
    /\ \E answered \in BOOLEAN :
         ChatFinding(t, FindResume(task[t], answered), sessions)
    /\ UNCHANGED <<Registry, turns>>

\* server.call_tool() completed in the call_tool of line 237.
ChatResume4(t) ==
    /\ task[t].pc = "tool_call" /\ task[t].op = "chat"
    /\ \E ok \in BOOLEAN : ChatFinding(t, InvokeResume(task[t], ok), sessions)
    /\ UNCHANGED <<Registry, turns>>

\* ------------------------------------------------------- specifications
\* Request handlers of the registry, any of them on any task.
NextRegistry ==
    \E t \in Tasks :
      \/ \E name \in Names : AddServer(t, name)
      \/ AddResume(t)
      \/ AddSpawn(t)
      \/ AddInit(t)
      \/ AddStop(t)
      \/ \E name \in Names : RemoveServer(t, name)
      \/ RemoveResume(t)
      \/ RemoveStop(t)
      \/ ListTools(t)
      \/ ListToolsResume(t)
      \/ \E tool \in ToolNames : CallTool(t, tool)
      \/ CallToolListed(t)
      \/ CallToolInvoked(t)

SpecRegistry == Init /\ [][NextRegistry]_vars

\* The steps of add_server and remove_server that do not wait for the provider's
\* word: a handler that was handed the lock is run, the spawn of the child process
\* returns or raises, and closing the transport ends (it is taken to end even for
\* a child that hangs, which asks the least of the code).  The handshake's
\* acknowledgment is awaited with no timeout (line 78): it comes when the provider
\* sends it.
Scheduled(t) ==
    AddResume(t) \/ RemoveResume(t) \/ AddSpawn(t) \/ AddStop(t) \/ RemoveStop(t)

SpecLive == Init /\ [][NextRegistry]_vars /\ \A t \in Tasks : WF_vars(Scheduled(t))

\* One client chats, on one session, while another adds and removes providers.
Chatters == {1}
Admins == {2}
SessionIds == {"s1"}       \* the session_id of a ChatRequest
Messages == {"what is 2+2"}

NextChat ==
    \/ \E t \in Chatters :
         \/ \E session_id \in SessionIds, message \in Messages : Chat(t, session_id, message)
         \/ ChatResume1(t)
         \/ ChatResume2(t)
         \/ ChatResume3(t)
         \/ ChatResume4(t)
    \/ \E t \in Admins :
         \/ \E name \in Names : AddServer(t, name)
         \/ AddSpawn(t)
         \/ AddInit(t)
         \/ AddStop(t)
         \/ \E name \in Names : RemoveServer(t, name)
         \/ RemoveStop(t)

SpecChat == Init /\ [][NextChat]_vars

\* =================================================================== claims
Running(sid) == srv[sid].proc = "running"
Registered(sid) == sid \in DictValues(servers)

\* The step in which handler t ends operation op with outcome out.
Ends(t, op, out) ==
    /\ task[t].pc # "done" \/ task[t] # task'[t]
    /\ task'[t].pc = "done" /\ task'[t].op = op /\ task'[t].out = out

\* The step in which add_server, holding the lock, finds its name in the dict.
AddFindsDuplicate(t) ==
    /\ task'[t] # task[t]
    /\ task'[t].op = "add"
    /\ \/ task[t].pc = "add_wait" /\ task'[t].pc # "add_wait"
       \/ Callable(t) /\ task'[t].pc \in {"add_spawn", "done"}
    /\ DictHas(servers, task'[t].name)

\* C1: an add of a name that is in the registry ends with DuplicateName in the very
\* step that finds the name, and that step constructs no server, starts no process
\* and leaves the registry and every server as they were; and in every state at most
\* one process runs per provider name.
C1_DuplicateRejected ==
    /\ [][\A t \in Tasks : AddFindsDuplicate(t) =>
             /\ Ends(t, "add", "DuplicateName")
             /\ UNCHANGED <<servers, srv, nextSid>>]_vars
    /\ [](\A i, j \in Sids :
             (i # j /\ srv[i].name = srv[j].name) => ~(Running(i) /\ Running(j)))

\* An add was rejected as a duplicate while the provider of that name runs on.
C1_Witness ==
    \E t \in Tasks :
      /\ task[t].pc = "done" /\ task[t].op = "add" /\ task[t].out = "DuplicateName"
      /\ \E sid \in Sids : srv[sid].name = task[t].name /\ Running(sid) /\ Registered(sid)

C3_FailedStartTornDown ==
    [][\A t \in Tasks : Ends(t, "add", "LaunchError") =>
          /\ srv'[task[t].cur].proc # "running"
          /\ task[t].cur \notin DictValues(servers')
          /\ task[t].name \notin ListServers']_vars

\* An add failed after its process had spawned: the handshake was never
\* acknowledged and the process has exited.
C3_Witness ==
    \E t \in Tasks :
      /\ task[t].pc = "done" /\ task[t].op = "add" /\ task[t].out = "LaunchError"
      /\ \E sid \in Sids :
           /\ srv[sid].name = task[t].name
           /\ srv[sid].proc = "exited" /\ ~srv[sid].session /\ ~Registered(sid)

\* C4: the aggregated list_tools does not fail when the list_tools of one provider
\* errors while another provider is healthy: a call that had gathered the tools of
\* a provider that answered does not end with the error of one that did not.
C4_CatalogSkipsBrokenProvider ==
    \A t \in Tasks :
      (/\ task[t].pc = "done" /\ task[t].op = "list_tools" /\ task[t].name = ""
       /\ task[t].tools # <<>>)
      => task[t].out # "ListError"

\* ------------------------------------------------------------ chat claims
ChatDone(t) == task[t].pc = "done" /\ task[t].op = "chat"

Range(seq) == {seq[i] : i \in DOMAIN seq}

\* What one chat call appended to the transcript it found.
Appended(t) ==
    LET now == Transcript(sessions, task[t].sid)
        old == IF task[t].before = <<>> THEN 1 ELSE Len(task[t].before)
    IN  SubSeq(now, old + 1, Len(now))

UserMessage(t) == Message("user", "", <<task[t].msg>>)

\* C5: when an LLM call of chat raises and the error leaves chat (the first call
\* with an error that is not retried, or the retry), the transcript of the session
\* is what it was before the call.
C5_HardFailureLeavesTranscript ==
    \A t \in Tasks :
      (ChatDone(t) /\ task[t].out \in LLMErrors)
      => Transcript(sessions, task[t].sid) = task[t].before

\* C6: when the reply selects a tool and ServerManager.call_tool raises, chat has
\* made the one LLM call and no other, returns normally with the tool's name, and
\* its response, which is also the one message it appended after the user's, is an
\* error text holding the tool's name and the error.
C6_ToolFailureIsSoft ==
    \A t \in Tasks :
      (ChatDone(t) /\ task[t].invoked \notin {"none", "ok"})
      => /\ task[t].out = "ok"
         /\ task[t].calls = <<"functions">>
         /\ task[t].fname = task[t].message.function_call.name
         /\ {task[t].fname, task[t].invoked} \subseteq Range(task[t].response)
         /\ Appended(t) = << UserMessage(t), Message("assistant", "", task[t].response) >>

\* The selected tool is offered by no provider and chat returned the error text.
C6_Witness ==
    \E t \in Tasks :
      /\ ChatDone(t) /\ task[t].invoked = "ToolNotFound" /\ task[t].out = "ok"
      /\ ListServers # {}

\* C7: when the reply selects a tool and ServerManager.call_tool returns, chat
\* appends one function message holding the JSON of the result, makes one second
\* LLM call, without functions, and returns the name and the parsed arguments the
\* reply selected; when that second call replies, chat returns normally, its
\* response is the reply's text and the last message appended is the assistant's
\* with that text.
C7_ToolSuccessFollowUp ==
    \A t \in Tasks :
      (ChatDone(t) /\ task[t].invoked = "ok")
      => /\ task[t].out = "ok"
         /\ task[t].calls = <<"functions", "plain">>
         /\ task[t].fname = task[t].message.function_call.name
         /\ task[t].fargs = JsonLoads(task[t].message.function_call.arguments).value
         /\ Len(Appended(t)) = 3
         /\ Appended(t)[1] = UserMessage(t)
         /\ Appended(t)[2] =
              Message("function", task[t].fname, JsonDumps(ToolResult(task[t].fname)))
         /\ Appended(t)[3] = Message("assistant", "", task[t].response)
         /\ task[t].llmError = "" =>
              task[t].response =
                IF task[t].second.content = None THEN <<"">> ELSE <<task[t].second.content>>

\* Tool add was invoked, the second call replied "4" and chat returned it.
C7_Witness ==
    \E t \in Tasks :
      /\ ChatDone(t) /\ task[t].invoked = "ok" /\ task[t].llmError = ""
      /\ task[t].fname = "add" /\ task[t].response = <<"4">>

\* The tools of the providers registered, in the order of the dict.
RECURSIVE Catalog(_)
Catalog(d) ==
    IF d = <<>> THEN <<>>
    ELSE (IF Head(d) = Hole THEN <<>> ELSE ToolInfos(Head(d).name)) \o Catalog(Tail(d))

\* The step of chat that writes the system message and the user's message.
ChatWrites(t) ==
    /\ task[t].op = "chat" /\ task[t].phase = 1
    /\ sessions' # sessions

\* C8: the step of a chat call that writes the transcript leaves at index 0 the
\* system message that lists the tools of the providers registered at that step,
\* on a new session and on one that has a transcript; and when chat returns the
\* message at index 0 is still that one.
C8_SystemMessageCurrent ==
    /\ [][\A t \in Tasks : ChatWrites(t) =>
             sessions'[task[t].sid][1] = Message("system", "", SystemMsg(Catalog(servers)))]_vars
    /\ [](\A t \in Tasks : (ChatDone(t) /\ task[t].out = "ok") =>
             sessions[task[t].sid][1] = Message("system", "", SystemMsg(task[t].listed)))

\* A later call on a session returned, and its system message is not the one the
\* session had: the providers changed between the calls.
C8_Witness ==
    \E t \in Tasks :
      /\ ChatDone(t) /\ task[t].out = "ok"
      /\ task[t].before # <<>>
      /\ task[t].before[1] # sessions[task[t].sid][1]
      /\ task[t].listed # <<>>

\* C9: when the first LLM call is rejected for its function schemas, chat makes one
\* more call, without functions, and no other; when that call replies, chat returns
\* normally with the reply's text, with no tool name and no arguments, without
\* having called ServerManager.call_tool, whatever the reply holds.
C9_SchemaRejectionRetry ==
    \A t \in Tasks :
      (ChatDone(t) /\ task[t].rejected = "BadRequestSchema")
      => /\ task[t].calls = <<"functions", "plain">>
         /\ task[t].llmError = "" =>
              /\ task[t].out = "ok"
              /\ task[t].response =
                   IF task[t].message.content = None THEN <<"">>
                   ELSE <<task[t].message.content>>
              /\ task[t].fname = None /\ task[t].fargs = NoneDict
              /\ task[t].invoked = "none"
              /\ Appended(t) = << UserMessage(t), Message("assistant", "", task[t].response) >>

\* The retry's reply held a function call of an offered tool, and chat returned.
C9_Witness ==
    \E t \in Tasks :
      /\ ChatDone(t) /\ task[t].rejected = "BadRequestSchema" /\ task[t].out = "ok"
      /\ task[t].message.function_call.name = "add"
      /\ "a" \in ListServers

\* C10: call_tool for a tool that no provider offers ends with ToolNotFound, also on
\* an empty registry.
C10_UnknownToolNotFound ==
    \A t \in Tasks :
      (/\ task[t].pc = "done" /\ task[t].op = "call_tool"
       /\ \A n \in Names : ~HasTool(ToolInfos(n), task[t].tool))
      => task[t].out = "ToolNotFound"

\* Whether a schema is an object schema: its type is object and it has properties.
IsObjectSchema(schema) ==
    /\ \E kv \in schema : kv[1] = "type" /\ kv[2] = "object"
    /\ \E kv \in schema : kv[1] = "properties"

\* C11: the first LLM call of a chat is sent one function definition per tool of the
\* catalog, in its order and under its name, and the parameters of each are the
\* tool's input schema when that is an object schema and the empty-object fallback
\* schema when it is not; a schema that is not an object schema is never sent.
C11_SchemaSentOrFallback ==
    \A t \in Tasks :
      task[t].op = "chat" =>
        /\ Len(task[t].functions) = Len(task[t].offered)
        /\ \A i \in DOMAIN task[t].offered :
             LET schema == task[t].offered[i].input_schema
                 sent == task[t].functions[i]
             IN  /\ sent.name = task[t].offered[i].name
                 /\ IsObjectSchema(sent.parameters)
                 /\ IsObjectSchema(schema) => sent.parameters = schema
                 /\ ~IsObjectSchema(schema) =>
                      sent.parameters =
                        {<<"type", "object">>, <<"properties", "">>, <<"required", "">>}
                 /\ (sent.parameters = schema) <=> IsObjectSchema(schema)

\* A chat sent the functions of both providers: one schema went as it was, and an
\* empty one, one without properties and one of the wrong type were replaced.
C11_Witness ==
    \E t \in Tasks :
      /\ task[t].op = "chat" /\ Len(task[t].functions) = 4
      /\ \E i \in 1..4 : task[t].functions[i].parameters = task[t].offered[i].input_schema
      /\ {EmptyDict, NoPropsSchema, WrongTypeSchema}
           \subseteq {task[t].offered[i].input_schema : i \in 1..4}

\* -------------------------------------------------------- concurrency claims
\* Handler t has a list_tools or call_tool request in flight on server sid.
InFlight(t, sid) == task[t].pc \in {"list_call", "tool_call"} /\ task[t].cur = sid

\* C12: no two handlers have a list_tools or call_tool request in flight on the same
\* provider session at the same time.
C12_CallsSerialized ==
    \A t, u \in Tasks : \A sid \in Sids :
      (InFlight(t, sid) /\ InFlight(u, sid)) => t = u

\* C13: a catalog read (list_tools with no name, or the scan of call_tool) never ends
\* with the error of a dict that changed during its iteration, whatever add or
\* remove completes while the read awaits a provider.
C13_ReadSurvivesMutation ==
    \A t \in Tasks :
      (task[t].pc = "done" /\ task[t].op \in {"list_tools", "call_tool"})
      => task[t].out # "IterError"

\* Handler t is inside `async with self._lock` of add_server or remove_server.
InSection(t) == task[t].pc \in {"add_spawn", "add_init", "add_stop", "rm_stop"}

\* C14: at most one add or remove is inside the section that tests the dict, starts
\* or stops a server and updates the dict, whatever the names; the handler inside
\* it is the holder of the registry lock, and a handler that has not entered it is
\* queued for the lock or has just been handed it.
C14_MutualExclusion ==
    /\ \A t, u \in Tasks : (InSection(t) /\ InSection(u)) => t = u
    /\ \A t \in Tasks : InSection(t) => lock = t
    /\ \A t \in Tasks : task[t].pc \in {"add_wait", "rm_wait"} =>
         lock = t \/ \E i \in DOMAIN waiters : waiters[i] = t

\* An add awaits its provider's handshake while a remove of another name waits
\* for the lock.
C14_Witness ==
    \E t, u \in Tasks :
      /\ task[t].pc = "add_init"
      /\ task[u].pc = "rm_wait" /\ task[u].name # task[t].name

\* C17: every server in the dict has completed its handshake (self.session is
\* set), also while an add is in flight; and every list_tools or call_tool request
\* in flight was issued on a session whose handshake was acknowledged.
C17_NoPartialEntry ==
    /\ \A sid \in DictValues(servers) : srv[sid].session
    /\ \A t \in Tasks : \A sid \in Sids : InFlight(t, sid) => srv[sid].session

\* An add awaits the handshake of its server, which runs and is not in the dict,
\* while another handler has a request in flight on the registered provider.
C17_Witness ==
    \E t, u \in Tasks :
      /\ task[t].pc = "add_init"
      /\ Running(task[t].cur) /\ ~srv[task[t].cur].session /\ ~Registered(task[t].cur)
      /\ task[u].pc = "list_call" /\ Registered(task[u].cur)

\* C18: a server whose stop() ran, so that its process has exited, has no cache
\* directory left, whether aclose() returned or raised.
C18_CacheDirDeleted ==
    \A sid \in Sids : srv[sid].proc = "exited" => srv[sid].dir # "exists"

\* remove_server has begun to stop server sid.
Stopping(sid) == \E u \in Tasks : task[u].pc = "rm_stop" /\ task[u].cur = sid

\* The step in which handler t issues a list_tools or call_tool request on sid.
Issues(t, sid) ==
    /\ task'[t].pc \in {"list_call", "tool_call"} /\ task'[t].cur = sid
    /\ <<task'[t].pc, task'[t].cur>> # <<task[t].pc, task[t].cur>>

\* C19: no handler issues a list_tools or call_tool request on a server that
\* remove_server has begun to stop.
C19_NoCallDuringTeardown ==
    [][\A t \in Tasks : \A sid \in Sids : Issues(t, sid) => ~Stopping(sid)]_vars

\* C15: chat retries its LLM call only when the first call was rejected for its
\* function schemas: rejected, the error of a first call that chat answered with a
\* retry, is never another error.
C15_RetryOnlyOnSchemaRejection ==
    \A t \in Tasks :
      task[t].op = "chat" => task[t].rejected \in {"", "BadRequestSchema"}

\* The provider behind server sid offers tool.
Offers(sid, tool) ==
    \E i \in DOMAIN RawTools(srv[sid].name) : RawTools(srv[sid].name)[i].name = tool

\* C16: call_tool invokes the tool on a provider that offers it, and every provider
\* before that one in the dict's order either does not offer the tool or had its
\* list_tools raise in this scan; once the invocation completes the call ends and
\* issues no other request; the error of a provider's list_tools is never the
\* outcome of call_tool; and the scan ends with ToolNotFound only when it has passed
\* every provider in the dict, each skipped or without the tool.
C16_FirstMatchInvoked ==
    /\ [](\A t \in Tasks : task[t].pc = "tool_call" =>
             /\ Offers(task[t].cur, task[t].tool)
             /\ task[t].cur \notin task[t].skipped
             /\ \A i \in Live(servers) :
                  i < task[t].it.pos - 1 =>
                    \/ servers[i].sid \in task[t].skipped
                    \/ ~Offers(servers[i].sid, task[t].tool))
    /\ [][\A t \in Tasks : (task[t].pc = "tool_call" /\ task'[t] # task[t]) =>
             task'[t].pc = "done"]_vars
    /\ [](\A t \in Tasks : (task[t].pc = "done" /\ task[t].op = "call_tool") =>
             task[t].out # "ListError")
    /\ [][\A t \in Tasks :
            (/\ task[t].pc = "list_call" /\ task[t].scan = "find"
             /\ task'[t].pc = "done" /\ task'[t].out = "ToolNotFound") =>
              \A i \in Live(servers) :
                \/ servers[i].sid = task[t].cur
                \/ servers[i].sid \in task[t].skipped
                \/ ~Offers(servers[i].sid, task[t].tool)]_vars

\* Both providers offer add: the list_tools of the first one raised and the scan
\* went on to invoke add on the second one.
C16_Witness ==
    \E t \in Tasks :
      /\ task[t].pc = "tool_call" /\ task[t].tool = "add"
      /\ \E i, j \in Live(servers) :
           /\ i < j /\ servers[j].sid = task[t].cur
           /\ servers[i].sid \in task[t].skipped /\ Offers(servers[i].sid, "add")

\* C20: every add and every remove that has entered the registry's critical
\* section eventually ends and no longer holds the lock, and every add or remove
\* that waits for the lock eventually ends, also when the provider never
\* acknowledges the handshake.
C20_AddRemoveFinish ==
    \A t \in Tasks :
      (InSection(t) \/ task[t].pc \in {"add_wait", "rm_wait"})
        ~> (task[t].pc = "done" /\ lock # t)

====
